---- MODULE Spec2Model ----
(***************************************************************************)
(* Transmission scheduling and state management of the device simulator:   *)
(* the APScheduler-backed job scheduler (scheduler.py), the per-device     *)
(* transmission state manager (transmission_state.py), the transmission    *)
(* executor (transmission.py) and the HTTP handlers that drive them        *)
(* (routes/transmissions.py).  Request handlers run on Flask threads       *)
(* (threaded=True) and job callbacks on the scheduler's thread pool, so    *)
(* every handler is a sequence of steps that interleave with the others.   *)
(***************************************************************************)
EXTENDS Integers, Sequences, FiniteSets, TLC

\* ---------------------------------------------------------------- bounds
MaxRows == 2
MaxLog == 3
MaxDue == 2

\* ------------------------------------------------------------ identifiers
Devices == {1}
Conns == {1, 2}
ConnIds == {1, 2, 3}
MThreads == {"m1", "m2"}
DeviceTypes == {"WebApp", "Sensor"}
FreqValues == {0, 60}
SendOutcomes == {"ok", "notok", "raise"}
CONNECTION_TYPES == {"MQTT", "HTTPS", "KAFKA"}

STATES == [INACTIVE |-> "inactive", ACTIVE |-> "active",
           PAUSED |-> "paused", MANUAL |-> "manual"]

NoJob == [exists |-> FALSE, interval |-> 0, paused |-> FALSE]
\* no get_device_state call is between its two reads
NoRead == [pc |-> "idle", dev |-> 0]
NoRet == [op |-> "none", dev |-> 0, ok |-> FALSE, error |-> "none",
          state |-> "none", n |-> 0]
Nil == -1
AllRows == -2

\* the application is serving requests: create_app has returned
Up == [phase |-> "up", todo |-> {}, runs |-> <<>>]

VARIABLES
    devExists,      \* devices table: row present
    devType,        \* Device.device_type
    freq,           \* Device.transmission_frequency
    hasCsv,         \* Device.csv_data is set
    rows,           \* number of rows of the CSV dataset
    enabled,        \* Device.transmission_enabled
    cursor,         \* Device.current_row_index (database column)
    last,           \* Device.last_transmission, as the number of updates
    connExists,     \* connections table: row present
    connActive,     \* Connection.is_active
    connType,       \* Connection.type
    job,            \* APScheduler job store, keyed by (device, connection)
    device_states,  \* TransmissionStateManager.device_states
    mpc,            \* position of each manual-transmission request thread
    mdev,           \* its device_id
    morig,          \* its local original_state
    msnap,          \* current_row_index of its Device object
    fpc,            \* position of the running instance of each job
    fsnap,          \* current_row_index of the job's Device object
    gpc,            \* position of the request reading a device's state
    req,            \* per device: the route handler step still to run
    log,            \* device_transmissions table, in insertion order
    boot,           \* process start-up: phase, the jobs still to visit, and
                    \* per job the run times submitted when the scheduler started
    ret             \* what the step just taken returned to its caller

vars == <<devExists, devType, freq, hasCsv, rows, enabled, cursor, last,
          connExists, connActive, connType, job, device_states, mpc, mdev,
          morig, msnap, fpc, fsnap, gpc, req, log, boot, ret>>

devConfig == <<devExists, devType, freq, hasCsv, rows>>
manualVars == <<mpc, mdev, morig, msnap>>
fireVars == <<fpc, fsnap>>

Keys == Devices \X Conns

\* ------------------------------------------------------------- scheduler
\* TransmissionScheduler.get_job_status(...)['exists']
JobExists(d, c) == c \in Conns /\ job[<<d, c>>].exists

\* connections the state manager iterates: Connection.get_all() filtered
ActiveConnections == {c \in Conns : connExists[c] /\ connActive[c]}

\* variant that leaves a job that already has the key as it is
ScheduleJobKeepExisting(j, d, c, f) ==
    IF j[<<d, c>>].exists THEN j
    ELSE [j EXCEPT ![<<d, c>>] = [exists |-> TRUE, interval |-> f, paused |-> FALSE]]

\* TransmissionScheduler.schedule_transmission: add_job(replace_existing)
ScheduleJob(j, d, c, f) ==
    [j EXCEPT ![<<d, c>>] = [exists |-> TRUE, interval |-> f, paused |-> FALSE]]

\* variant that stops after the first connection of the loop
RemoveJobsFirstOnly(j, d, cs) ==
    [k \in DOMAIN j |-> IF k[1] = d /\ k[2] \in cs /\ \A c \in cs : k[2] <= c
                    THEN NoJob ELSE j[k]]

\* TransmissionScheduler.stop_transmission applied to a set of connections
RemoveJobs(j, d, cs) ==
    [k \in DOMAIN j |-> IF k[1] = d /\ k[2] \in cs THEN NoJob ELSE j[k]]

\* variant that leaves the job as it is
SetPausedIgnored(j, d, cs, p) == j

\* TransmissionScheduler.pause_transmission / resume_transmission
SetPaused(j, d, cs, p) ==
    [k \in DOMAIN j |-> IF k[1] = d /\ k[2] \in cs /\ j[k].exists
                    THEN [j[k] EXCEPT !.paused = p] ELSE j[k]]

\* --------------------------------------------------------- state manager
StoredState(d) ==
    IF device_states[d] = "none" THEN STATES.INACTIVE ELSE device_states[d]

GetDeviceState(d) ==
    IF \E c \in ActiveConnections : JobExists(d, c)
    THEN IF devExists[d] /\ enabled[d] THEN STATES.ACTIVE ELSE STATES.PAUSED
    ELSE StoredState(d)

\* variant that only excludes a manual transmission in progress
CanExecuteManualNotManual(d) ==
    GetDeviceState(d) # STATES.MANUAL

CanExecuteManual(d) ==
    GetDeviceState(d) \in {STATES.INACTIVE, STATES.PAUSED}

\* variant whose start stays enabled while a transmission is active
GetAvailableActionsStartLoose(d) ==
    LET state == GetDeviceState(d) IN
    [transmit_now |-> state \in {STATES.INACTIVE, STATES.PAUSED},
     start |-> state \in {STATES.INACTIVE, STATES.ACTIVE},
     pause |-> state = STATES.ACTIVE,
     resume |-> state = STATES.PAUSED,
     stop |-> state \in {STATES.ACTIVE, STATES.PAUSED}]

GetAvailableActions(d) ==
    LET state == GetDeviceState(d) IN
    [transmit_now |-> state \in {STATES.INACTIVE, STATES.PAUSED},
     start |-> state = STATES.INACTIVE,
     pause |-> state = STATES.ACTIVE,
     resume |-> state = STATES.PAUSED,
     stop |-> state \in {STATES.ACTIVE, STATES.PAUSED}]

\* ---------------------------------------------------------------- device
\* variant that still builds a row when the index equals the length
GetTransmissionDataPastEnd(d, cur) ==
    IF devType[d] = "WebApp"
    THEN IF hasCsv[d] /\ rows[d] > 0 THEN AllRows ELSE Nil
    ELSE IF hasCsv[d] /\ cur <= rows[d] THEN cur ELSE Nil

\* Device.get_transmission_data on a Device object whose row index is cur:
\* the index of the row sent (Sensor), AllRows (WebApp) or Nil
GetTransmissionData(d, cur) ==
    IF devType[d] = "WebApp"
    THEN IF hasCsv[d] /\ rows[d] > 0 THEN AllRows ELSE Nil
    ELSE IF hasCsv[d] /\ cur < rows[d] THEN cur ELSE Nil

LogEntry(d, status) == [dev |-> d, status |-> status]

\* ConnectionClientFactory.create_client: a client for MQTT and HTTPS,
\* ValueError for any other type
CreateClient(c) ==
    IF connType[c] \in {"MQTT", "HTTPS"} THEN "client" ELSE "ValueError"

\* sends that have been handed to a client and have not returned yet
InFlight ==
    Cardinality({t \in MThreads : mpc[t] = "sending"})
    + Cardinality({k \in DOMAIN fpc : fpc[k] = "sending"})

CanLog == Len(log) + InFlight < MaxLog

\* the value a call returns: success flag, kind of error, the current_state
\* attached to a conflict, for stop the number of calls made in a row, and
\* for start the number of jobs the key had before the call.
\* For the steps of a start-up pass: ok says that no other step was taken
\* since the pass began, n counts the jobs the pass removed and created so
\* far, and state is "again" when the pass began right after a complete
\* pass that no other step had interrupted.
Ret(op, d, ok, error, state, n) ==
    [op |-> op, dev |-> d, ok |-> ok, error |-> error, state |-> state, n |-> n]

\* ------------------------------------------------------------------ Init
\* the columns of the records and an idle process
InitRecords ==
    /\ devType \in [Devices -> DeviceTypes]
    /\ hasCsv \in [Devices -> BOOLEAN]
    /\ rows \in [Devices -> {0, MaxRows}]
    /\ \A d \in Devices : ~hasCsv[d] => rows[d] = 0
    /\ enabled = [d \in Devices |-> FALSE]
    /\ cursor = [d \in Devices |-> 0]
    /\ last = [d \in Devices |-> 0]
    /\ connExists = [c \in Conns |-> TRUE]
    /\ connActive = [c \in Conns |-> TRUE]
    /\ job = [k \in Keys |-> NoJob]
    /\ device_states = [d \in Devices |-> "none"]
    /\ mpc = [t \in MThreads |-> "idle"]
    /\ mdev = [t \in MThreads |-> 1]
    /\ morig = [t \in MThreads |-> "none"]
    /\ msnap = [t \in MThreads |-> 0]
    /\ fpc = [k \in Keys |-> "idle"]
    /\ fsnap = [k \in Keys |-> 0]
    /\ gpc = NoRead
    /\ req = [d \in Devices |-> "idle"]
    /\ log = <<>>
    /\ boot = Up
    /\ ret = NoRet

\* every device is in the devices table
InitState ==
    /\ devExists = [d \in Devices |-> TRUE]
    /\ freq \in [Devices -> FreqValues]
    /\ InitRecords

\* connections of a supported type
Init ==
    /\ InitState
    /\ connType = [c \in Conns |-> "MQTT"]

\* ------------------------------------------------------------- executor
\* variant that returns False without writing a log entry
NoDataNotLogged(d) ==
    log' = log

\* TransmissionManager.transmit_device_data, first half: build the payload
\* from the Device object; with nothing to send, log FAILED and return False
NoDataLogged(d) ==
    log' = Append(log, LogEntry(d, "FAILED"))

\* variant that records a send that raised as a success
TransmissionStatusRaiseAsSuccess(outcome) ==
    IF outcome = "notok" THEN "FAILED" ELSE "SUCCESS"

\* the status logged for a send: 'SUCCESS' if success else 'FAILED', and
\* 'FAILED' in the exception handler
TransmissionStatus(outcome) ==
    IF outcome = "ok" THEN "SUCCESS" ELSE "FAILED"

\* variant that advances the row of every device type
AdvancesSensorRowAnyType(d, outcome) ==
    outcome = "ok"

\* line 30: if success and device.device_type == 'Sensor'
AdvancesSensorRow(d, outcome) ==
    outcome = "ok" /\ devType[d] = "Sensor"

\* second half: client.send returned or raised; log, advance the row of a
\* Sensor on success (the Device object's index + 1 is written to the
\* database), update last_transmission unless send raised
TransmitDone(d, snap, outcome) ==
    /\ log' = Append(log, LogEntry(d, TransmissionStatus(outcome)))
    /\ cursor' = IF AdvancesSensorRow(d, outcome)
                 THEN [cursor EXCEPT ![d] = snap + 1] ELSE cursor
    /\ last' = IF outcome # "raise" THEN [last EXCEPT ![d] = @ + 1] ELSE last

\* ------------------------------------------- manual transmission request
\* request threads are interchangeable: a new request takes the first free one
ThreadBefore(u, t) == u = "m1" /\ t = "m2"

MIdle(t) ==
    /\ mpc' = [mpc EXCEPT ![t] = "idle"]
    /\ mdev' = [mdev EXCEPT ![t] = 1]
    /\ morig' = [morig EXCEPT ![t] = "none"]
    /\ msnap' = [msnap EXCEPT ![t] = 0]

\* transmit_now route and execute_manual_transmission, line 115:
\* can_execute_manual, and the else branch that reports the conflict with
\* the current state.  The route's own can_execute_manual pre-check
\* (line 106) reads the same state and changes nothing.
ExecuteManualCheck(t, d) ==
    /\ boot = Up
    /\ mpc[t] = "idle"
    /\ \A u \in MThreads : ThreadBefore(u, t) => mpc[u] # "idle"
    /\ IF CanExecuteManual(d)
       THEN /\ mpc' = [mpc EXCEPT ![t] = "pass"]
            /\ mdev' = [mdev EXCEPT ![t] = d]
            /\ ret' = NoRet
            /\ UNCHANGED <<morig, msnap>>
       ELSE /\ ret' = Ret("manual", d, FALSE, "conflict", GetDeviceState(d), 0)
            /\ UNCHANGED manualVars
    /\ UNCHANGED <<gpc, devConfig, boot, enabled, cursor, last, connExists, connActive, connType,
                   job, device_states, fireVars, req, log>>

\* lines 117-118: remember the stored state, store MANUAL
ExecuteManualEnter(t) ==
    /\ mpc[t] = "pass"
    /\ morig' = [morig EXCEPT ![t] = StoredState(mdev[t])]
    /\ device_states' = [device_states EXCEPT ![mdev[t]] = STATES.MANUAL]
    /\ mpc' = [mpc EXCEPT ![t] = "manual"]
    /\ ret' = NoRet
    /\ UNCHANGED <<gpc, devConfig, boot, enabled, cursor, last, connExists, connActive, connType,
                   job, mdev, msnap, fireVars, req, log>>

\* lines 123-130 up to client.send: load the records, build the payload,
\* create the client.  Every early return runs the finally block, which
\* restores the state; so does the handler of line 140, which catches the
\* ValueError of create_client and returns a failure.
ExecuteManualBegin(t, c) ==
    LET d == mdev[t] IN
    /\ mpc[t] = "manual"
    /\ (devExists[d] /\ c \in Conns /\ connExists[c]) => CanLog
    /\ IF ~devExists[d] \/ c \notin Conns \/ ~connExists[c]
       THEN /\ device_states' = [device_states EXCEPT ![d] = morig[t]]
            /\ MIdle(t)
            /\ ret' = Ret("manual", d, FALSE, "notfound", "none", 0)
            /\ UNCHANGED log
       ELSE IF GetTransmissionData(d, cursor[d]) = Nil
       THEN /\ NoDataLogged(d)
            /\ device_states' = [device_states EXCEPT ![d] = morig[t]]
            /\ MIdle(t)
            /\ ret' = Ret("manual", d, FALSE, "none", "none", 0)
       ELSE IF CreateClient(c) = "ValueError"
       THEN /\ device_states' = [device_states EXCEPT ![d] = morig[t]]
            /\ MIdle(t)
            /\ ret' = Ret("manual", d, FALSE, "exception", "none", 0)
            /\ UNCHANGED log
       ELSE /\ mpc' = [mpc EXCEPT ![t] = "sending"]
            /\ msnap' = [msnap EXCEPT ![t] = cursor[d]]
            /\ ret' = NoRet
            /\ UNCHANGED <<device_states, mdev, morig, log>>
    /\ UNCHANGED <<gpc, devConfig, boot, enabled, cursor, last, connExists, connActive, connType,
                   job, fireVars, req>>

\* client.send returns or raises; transmit_device_data finishes and the
\* finally block (line 145) restores the remembered state
ExecuteManualEnd(t, outcome) ==
    LET d == mdev[t] IN
    /\ mpc[t] = "sending"
    /\ TransmitDone(d, msnap[t], outcome)
    /\ device_states' = [device_states EXCEPT ![d] = morig[t]]
    /\ MIdle(t)
    /\ ret' = Ret("manual", d, outcome = "ok", "none", "none", 0)
    /\ UNCHANGED <<gpc, devConfig, boot, enabled, connExists, connActive, connType, job,
                   fireVars, req>>

\* -------------------------------------------------------- scheduled fire
\* variant without a limit on the running instances of a job
MaxInstancesUnlimited(k) == FALSE

\* variant in which the callback only returns
StopOwnJobSkipped(j, d, c) == j

\* execute_transmission_job, lines 53-62: the callback of a device that is
\* not enabled stops its own job
StopOwnJob(j, d, c) == RemoveJobs(j, d, {c})

\* job_defaults max_instances = 1: a due job is not submitted while an
\* instance of it is running
MaxInstancesReached(k) == fpc[k] # "idle"

\* execute_transmission_job up to client.send.  APScheduler runs it when
\* the job is due, not paused, and no instance of it is running
\* (max_instances = 1).  The ValueError of create_client is caught by the
\* handler of line 81, which only writes to the application log.
FireBegin(d, c) ==
    LET k == <<d, c>>
        reset == devType[d] = "Sensor" /\ cursor[d] >= rows[d]
        snap == IF reset THEN 0 ELSE cursor[d] IN
    /\ job[k].exists
    /\ ~job[k].paused
    /\ ~MaxInstancesReached(k)
    /\ (devExists[d] /\ connExists[c] /\ enabled[d]) => CanLog
    /\ ret' = NoRet
    /\ IF ~devExists[d] \/ ~connExists[c]
       THEN UNCHANGED <<job, cursor, log, fireVars>>
       ELSE IF ~enabled[d]
       THEN /\ job' = StopOwnJob(job, d, c)
            /\ UNCHANGED <<cursor, log, fireVars>>
       ELSE IF devType[d] = "Sensor" /\ ~hasCsv[d]
       THEN UNCHANGED <<job, cursor, log, fireVars>>
       ELSE /\ cursor' = IF reset THEN [cursor EXCEPT ![d] = 0] ELSE cursor
            /\ UNCHANGED job
            /\ IF GetTransmissionData(d, snap) = Nil
               THEN /\ NoDataLogged(d)
                    /\ UNCHANGED fireVars
               ELSE IF CreateClient(c) = "ValueError"
               THEN UNCHANGED <<log, fireVars>>
               ELSE /\ fpc' = [fpc EXCEPT ![k] = "sending"]
                    /\ fsnap' = [fsnap EXCEPT ![k] = snap]
                    /\ UNCHANGED log
    /\ UNCHANGED <<gpc, devConfig, boot, enabled, last, connExists, connActive, connType,
                   device_states, manualVars, req>>

FireEnd(d, c, outcome) ==
    LET k == <<d, c>> IN
    /\ fpc[k] = "sending"
    /\ TransmitDone(d, fsnap[k], outcome)
    /\ fpc' = [fpc EXCEPT ![k] = "idle"]
    /\ fsnap' = [fsnap EXCEPT ![k] = 0]
    /\ ret' = NoRet
    /\ UNCHANGED <<gpc, devConfig, boot, enabled, connExists, connActive, connType, job,
                   device_states, manualVars, req>>

\* ------------------------------------------------- automatic transmission
\* what the scheduler does with a call: it works, get_scheduler() returns
\* None, or add_job raises
SchedulerFaults == {"none", "unavailable", "fails"}

\* variant that does not look at the connection's is_active flag
StartSucceedsAnyConnection(d, c, fault) ==
    /\ devExists[d]
    /\ freq[d] > 0
    /\ c \in Conns
    /\ connExists[c]
    /\ fault = "none"

\* start_automatic_transmission, lines 25-52: every check passes and
\* schedule_transmission returns a job id
StartSucceeds(d, c, fault) ==
    /\ devExists[d]
    /\ freq[d] > 0
    /\ c \in Conns
    /\ connExists[c]
    /\ connActive[c]
    /\ fault = "none"

\* start_transmission route up to and including
\* TransmissionStateManager.start_automatic_transmission, with the given
\* behaviour of the scheduler
StartAutomatic(d, c, fault) ==
    /\ boot = Up
    /\ req[d] = "idle"
    /\ IF StartSucceeds(d, c, fault)
       THEN /\ job' = ScheduleJob(job, d, c, freq[d])
            /\ device_states' = [device_states EXCEPT ![d] = STATES.ACTIVE]
            /\ req' = [req EXCEPT ![d] = "start"]
            /\ ret' = Ret("start", d, TRUE, "none", "none",
                          IF JobExists(d, c) THEN 1 ELSE 0)
       ELSE /\ ret' = Ret("start", d, FALSE, "failed", "none", 0)
            /\ UNCHANGED <<job, device_states, req>>
    /\ UNCHANGED <<gpc, devConfig, boot, enabled, cursor, last, connExists, connActive, connType,
                   manualVars, fireVars, log>>

\* the same with a scheduler that works
StartAutomaticTransmission(d, c) == StartAutomatic(d, c, "none")

\* start_transmission route, line 257: update_transmission_config(enabled=True)
StartEnable(d) ==
    /\ req[d] = "start"
    /\ enabled' = [enabled EXCEPT ![d] = TRUE]
    /\ req' = [req EXCEPT ![d] = "idle"]
    /\ ret' = NoRet
    /\ UNCHANGED <<gpc, devConfig, boot, cursor, last, connExists, connActive, connType, job,
                   device_states, manualVars, fireVars, log>>

\* TransmissionStateManager.pause_transmission
PauseTransmission(d) ==
    /\ boot = Up
    /\ req[d] = "idle"
    /\ IF device_states[d] = STATES.ACTIVE
       THEN /\ job' = SetPaused(job, d, ActiveConnections, TRUE)
            /\ device_states' = [device_states EXCEPT ![d] = STATES.PAUSED]
            /\ req' = [req EXCEPT ![d] = "pause"]
            /\ ret' = Ret("pause", d, TRUE, "none", "none", 0)
       ELSE /\ ret' = Ret("pause", d, FALSE, "failed", "none", 0)
            /\ UNCHANGED <<job, device_states, req>>
    /\ UNCHANGED <<gpc, devConfig, boot, enabled, cursor, last, connExists, connActive, connType,
                   manualVars, fireVars, log>>

\* pause_transmission route, line 285: update_transmission_config(enabled=False)
PauseDisable(d) ==
    /\ req[d] = "pause"
    /\ enabled' = [enabled EXCEPT ![d] = FALSE]
    /\ req' = [req EXCEPT ![d] = "idle"]
    /\ ret' = NoRet
    /\ UNCHANGED <<gpc, devConfig, boot, cursor, last, connExists, connActive, connType, job,
                   device_states, manualVars, fireVars, log>>

\* TransmissionStateManager.resume_transmission
ResumeTransmission(d) ==
    /\ boot = Up
    /\ req[d] = "idle"
    /\ IF device_states[d] = STATES.PAUSED
       THEN /\ job' = SetPaused(job, d, ActiveConnections, FALSE)
            /\ device_states' = [device_states EXCEPT ![d] = STATES.ACTIVE]
            /\ req' = [req EXCEPT ![d] = "resume"]
            /\ ret' = Ret("resume", d, TRUE, "none", "none", 0)
       ELSE /\ ret' = Ret("resume", d, FALSE, "failed", "none", 0)
            /\ UNCHANGED <<job, device_states, req>>
    /\ UNCHANGED <<gpc, devConfig, boot, enabled, cursor, last, connExists, connActive, connType,
                   manualVars, fireVars, log>>

\* resume_transmission route, line 302: update_transmission_config(enabled=True)
ResumeEnable(d) ==
    /\ req[d] = "resume"
    /\ enabled' = [enabled EXCEPT ![d] = TRUE]
    /\ req' = [req EXCEPT ![d] = "idle"]
    /\ ret' = NoRet
    /\ UNCHANGED <<gpc, devConfig, boot, cursor, last, connExists, connActive, connType, job,
                   device_states, manualVars, fireVars, log>>

\* TransmissionStateManager.stop_transmission; n counts the calls made in
\* a row for the device
StopTransmission(d) ==
    /\ boot = Up
    /\ req[d] \in {"idle", "stop"}
    /\ job' = RemoveJobs(job, d, ActiveConnections)
    /\ device_states' = [device_states EXCEPT ![d] = STATES.INACTIVE]
    /\ req' = [req EXCEPT ![d] = "stop"]
    /\ ret' = Ret("stop", d, TRUE, "none", "none",
                  IF ret.op = "stop" /\ ret.dev = d THEN 2 ELSE 1)
    /\ UNCHANGED <<gpc, devConfig, boot, enabled, cursor, last, connExists, connActive, connType,
                   manualVars, fireVars, log>>

\* stop_transmission route, lines 318-321: disable, reset a Sensor's row.
\* For an unknown device Device.get_by_id returns None and the handler
\* fails before it changes anything.
StopDisable(d) ==
    /\ req[d] = "stop"
    /\ req' = [req EXCEPT ![d] = "idle"]
    /\ ret' = NoRet
    /\ IF devExists[d]
       THEN /\ enabled' = [enabled EXCEPT ![d] = FALSE]
            /\ cursor' = IF devType[d] = "Sensor"
                         THEN [cursor EXCEPT ![d] = 0] ELSE cursor
       ELSE UNCHANGED <<enabled, cursor>>
    /\ UNCHANGED <<gpc, devConfig, boot, last, connExists, connActive, connType, job,
                   device_states, manualVars, fireVars, log>>

\* reset_sensor route: Device.reset_sensor_position for a Sensor
ResetSensor(d) ==
    /\ boot = Up
    /\ IF devExists[d] /\ devType[d] = "Sensor"
       THEN /\ cursor' = [cursor EXCEPT ![d] = 0]
            /\ ret' = Ret("reset", d, TRUE, "none", "none", 0)
       ELSE /\ ret' = Ret("reset", d, FALSE,
                          IF devExists[d] THEN "validation" ELSE "notfound",
                          "none", 0)
            /\ UNCHANGED cursor
    /\ UNCHANGED <<gpc, devConfig, boot, enabled, last, connExists, connActive,
                   connType, job, device_states, manualVars, fireVars, req, log>>

\* ------------------------------------------------------------------ Next
\* one manual request at a time, with every scheduler and route operation
Next ==
    \/ \E d \in Devices : ExecuteManualCheck("m1", d)
    \/ ExecuteManualEnter("m1")
    \/ \E c \in ConnIds : ExecuteManualBegin("m1", c)
    \/ \E o \in SendOutcomes : ExecuteManualEnd("m1", o)
    \/ \E d \in Devices, c \in Conns : FireBegin(d, c)
    \/ \E d \in Devices, c \in Conns, o \in SendOutcomes : FireEnd(d, c, o)
    \/ \E d \in Devices, c \in ConnIds : StartAutomaticTransmission(d, c)
    \/ \E d \in Devices : StartEnable(d)
    \/ \E d \in Devices : PauseTransmission(d)
    \/ \E d \in Devices : PauseDisable(d)
    \/ \E d \in Devices : ResumeTransmission(d)
    \/ \E d \in Devices : ResumeEnable(d)
    \/ \E d \in Devices : StopTransmission(d)
    \/ \E d \in Devices : StopDisable(d)

Spec == Init /\ [][Next]_vars

\* concurrent manual requests, with start, stop and the timer
NextManual ==
    \/ \E t \in MThreads, d \in Devices : ExecuteManualCheck(t, d)
    \/ \E t \in MThreads : ExecuteManualEnter(t)
    \/ \E t \in MThreads, c \in ConnIds : ExecuteManualBegin(t, c)
    \/ \E t \in MThreads, o \in SendOutcomes : ExecuteManualEnd(t, o)
    \/ \E d \in Devices, c \in Conns : FireBegin(d, c)
    \/ \E d \in Devices, c \in Conns, o \in SendOutcomes : FireEnd(d, c, o)
    \/ \E d \in Devices, c \in ConnIds : StartAutomaticTransmission(d, c)
    \/ \E d \in Devices : StartEnable(d)
    \/ \E d \in Devices : StopTransmission(d)
    \/ \E d \in Devices : StopDisable(d)

SpecManual == Init /\ [][NextManual]_vars

\* ------------------------------------------------------- executor runs
\* a connection of any type the connections table accepts, next to an
\* HTTPS connection
InitExec ==
    /\ InitState
    /\ connType \in [Conns -> CONNECTION_TYPES]
    /\ connType[2] = "HTTPS"

\* manual and scheduled executions with start, stop and reset requests
NextExec ==
    \/ \E d \in Devices : ExecuteManualCheck("m1", d)
    \/ ExecuteManualEnter("m1")
    \/ \E c \in ConnIds : ExecuteManualBegin("m1", c)
    \/ \E o \in SendOutcomes : ExecuteManualEnd("m1", o)
    \/ \E d \in Devices, c \in Conns : FireBegin(d, c)
    \/ \E d \in Devices, c \in Conns, o \in SendOutcomes : FireEnd(d, c, o)
    \/ \E d \in Devices, c \in Conns : StartAutomaticTransmission(d, c)
    \/ \E d \in Devices : StartEnable(d)
    \/ \E d \in Devices : StopTransmission(d)
    \/ \E d \in Devices : StopDisable(d)
    \/ \E d \in Devices : ResetSensor(d)

SpecExec == InitExec /\ [][NextExec]_vars

\* ----------------------------------------------------------------- fleet
\* several devices, each configured for automatic transmission
FleetDevices == {1, 2, 3}

\* TransmissionBusinessRules.MAX_GLOBAL_CONCURRENT_TRANSMISSIONS, scaled to
\* a fleet of three devices
GlobalCap == 2

InitFleet ==
    /\ devExists = [d \in FleetDevices |-> TRUE]
    /\ devType = [d \in FleetDevices |-> "WebApp"]
    /\ freq = [d \in FleetDevices |-> 60]
    /\ hasCsv = [d \in FleetDevices |-> TRUE]
    /\ rows = [d \in FleetDevices |-> MaxRows]
    /\ enabled = [d \in FleetDevices |-> FALSE]
    /\ cursor = [d \in FleetDevices |-> 0]
    /\ last = [d \in FleetDevices |-> 0]
    /\ connExists = [c \in Conns |-> TRUE]
    /\ connActive = [c \in Conns |-> TRUE]
    /\ connType = [c \in Conns |-> "MQTT"]
    /\ job = [k \in FleetDevices \X Conns |-> NoJob]
    /\ device_states = [d \in FleetDevices |-> "none"]
    /\ mpc = [t \in MThreads |-> "idle"]
    /\ mdev = [t \in MThreads |-> 1]
    /\ morig = [t \in MThreads |-> "none"]
    /\ msnap = [t \in MThreads |-> 0]
    /\ fpc = [k \in FleetDevices \X Conns |-> "idle"]
    /\ fsnap = [k \in FleetDevices \X Conns |-> 0]
    /\ gpc = NoRead
    /\ req = [d \in FleetDevices |-> "idle"]
    /\ log = <<>>
    /\ boot = Up
    /\ ret = NoRet

\* start and stop requests for every device of the fleet
NextFleet ==
    \/ \E d \in FleetDevices, c \in Conns : StartAutomaticTransmission(d, c)
    \/ \E d \in FleetDevices : StartEnable(d)
    \/ \E d \in FleetDevices : StopTransmission(d)
    \/ \E d \in FleetDevices : StopDisable(d)

SpecFleet == InitFleet /\ [][NextFleet]_vars

\* ------------------------------------------------------ configuration
ConfigFreqValues == {0, 10, 30}
MIN_FREQUENCY == 1
MAX_FREQUENCY == 86400

\* TransmissionValidator.validate_transmission_frequency
ValidateTransmissionFrequency(f) == f >= MIN_FREQUENCY /\ f <= MAX_FREQUENCY

\* PUT transmission-config: validate, then write the columns that were
\* given (Nil stands for a key absent from the request).  Nothing is
\* scheduled or unscheduled.
UpdateTransmissionConfig(d, f, e) ==
    /\ boot = Up
    /\ devExists[d]
    /\ IF f # Nil /\ ~ValidateTransmissionFrequency(f)
       THEN /\ ret' = Ret("config", d, FALSE, "validation", "none", 0)
            /\ UNCHANGED <<freq, enabled>>
       ELSE /\ freq' = IF f # Nil THEN [freq EXCEPT ![d] = f] ELSE freq
            /\ enabled' = IF e # Nil THEN [enabled EXCEPT ![d] = (e = 1)]
                          ELSE enabled
            /\ ret' = Ret("config", d, TRUE, "none", "none", 0)
    /\ UNCHANGED <<gpc, devExists, devType, hasCsv, rows, cursor, last, connExists,
                   connActive, connType, job, device_states, manualVars, fireVars, req,
                   log, boot>>

\* PUT connection: Connection.update(is_active = a)
UpdateConnection(c, a) ==
    /\ boot = Up
    /\ connExists[c]
    /\ connActive' = [connActive EXCEPT ![c] = a]
    /\ ret' = Ret("connection", 0, TRUE, "none", "none", 0)
    /\ UNCHANGED <<gpc, devConfig, enabled, cursor, last, connExists, connType, job,
                   device_states, manualVars, fireVars, req, log, boot>>

\* --------------------------------------------------------- start requests
\* a device id with or without a record, no dataset
InitStart ==
    /\ devExists \in [Devices -> BOOLEAN]
    /\ freq \in [Devices -> FreqValues]
    /\ InitRecords
    /\ connType = [c \in Conns |-> "MQTT"]
    /\ \A d \in Devices : ~hasCsv[d]

\* start requests for known and unknown connections with every behaviour
\* of the scheduler, among pause, resume, stop and configuration changes
NextStart ==
    \/ \E d \in Devices, c \in ConnIds, fault \in SchedulerFaults :
          StartAutomatic(d, c, fault)
    \/ \E d \in Devices : StartEnable(d)
    \/ \E d \in Devices : PauseTransmission(d)
    \/ \E d \in Devices : PauseDisable(d)
    \/ \E d \in Devices : ResumeTransmission(d)
    \/ \E d \in Devices : ResumeEnable(d)
    \/ \E d \in Devices : StopTransmission(d)
    \/ \E d \in Devices : StopDisable(d)
    \/ \E d \in Devices, f \in ConfigFreqValues : UpdateTransmissionConfig(d, f, Nil)
    \/ \E c \in Conns, a \in BOOLEAN : UpdateConnection(c, a)

SpecStart == InitStart /\ [][NextStart]_vars

\* ------------------------------------------------------ frequency bounds
\* frequencies at and around the limits of both device types
BoundaryFreqValues ==
    {-1, 0, 1, 2, 59, 60, 61, 3599, 3600, 3601, 86399, 86400, 86401}

\* variant whose WebApp floor excludes 60
ValidateFrequencyByDeviceTypeOpenFloor(device_type, frequency) ==
    IF device_type = "Sensor"
    THEN IF frequency < 1 THEN "ValidationError"
         ELSE IF frequency > 3600 THEN "ValidationError" ELSE "True"
    ELSE IF device_type = "WebApp"
    THEN IF frequency <= 60 THEN "ValidationError"
         ELSE IF frequency > 86400 THEN "ValidationError" ELSE "True"
    ELSE "True"

\* TransmissionBusinessRules.validate_frequency_by_device_type: what the
\* call returns or raises
ValidateFrequencyByDeviceType(device_type, frequency) ==
    IF device_type = "Sensor"
    THEN IF frequency < 1 THEN "ValidationError"
         ELSE IF frequency > 3600 THEN "ValidationError" ELSE "True"
    ELSE IF device_type = "WebApp"
    THEN IF frequency < 60 THEN "ValidationError"
         ELSE IF frequency > 86400 THEN "ValidationError" ELSE "True"
    ELSE "True"

\* the validator applied to the type and the frequency of a device; it
\* writes nothing
ValidateFrequency(d) ==
    /\ boot = Up
    /\ devExists[d]
    /\ LET result == ValidateFrequencyByDeviceType(devType[d], freq[d]) IN
          ret' = Ret("validate", d, result = "True",
                     IF result = "True" THEN "none" ELSE "validation", "none", 0)
    /\ UNCHANGED <<gpc, devConfig, boot, enabled, cursor, last, connExists,
                   connActive, connType, job, device_states, manualVars,
                   fireVars, req, log>>

\* a device of either type with a frequency at or around a limit
InitValidate ==
    /\ devExists = [d \in Devices |-> TRUE]
    /\ freq \in [Devices -> BoundaryFreqValues]
    /\ InitRecords
    /\ connType = [c \in Conns |-> "MQTT"]

NextValidate ==
    \E d \in Devices : ValidateFrequency(d)

SpecValidate == InitValidate /\ [][NextValidate]_vars

\* ------------------------------------------------------ project operations
BulkOperations == {"PAUSE", "RESUME", "STOP"}

\* _execute_bulk_operation, one turn of the loop: the operation is applied
\* to the job of the device on its selected connection c by the scheduler,
\* which returns False when the key has no job, and on success the enabled
\* flag is written
BulkOperation(d, c, op) ==
    /\ boot = Up
    /\ devExists[d]
    /\ IF JobExists(d, c)
       THEN /\ job' = CASE op = "PAUSE" -> SetPaused(job, d, {c}, TRUE)
                        [] op = "RESUME" -> SetPaused(job, d, {c}, FALSE)
                        [] op = "STOP" -> RemoveJobs(job, d, {c})
            /\ enabled' = [enabled EXCEPT ![d] = (op = "RESUME")]
            /\ ret' = Ret(op, d, TRUE, "none", "none", 0)
       ELSE /\ ret' = Ret(op, d, FALSE, "failed", "none", 0)
            /\ UNCHANGED <<job, enabled>>
    /\ UNCHANGED <<gpc, devConfig, boot, cursor, last, connExists, connActive,
                   connType, device_states, manualVars, fireVars, req, log>>

\* devices with a dataset
InitBulk ==
    /\ Init
    /\ \A d \in Devices : hasCsv[d] /\ rows[d] = MaxRows

\* device requests and project operations with the timer
NextBulk ==
    \/ \E d \in Devices, c \in Conns : StartAutomaticTransmission(d, c)
    \/ \E d \in Devices : StartEnable(d)
    \/ \E d \in Devices : PauseTransmission(d)
    \/ \E d \in Devices : PauseDisable(d)
    \/ \E d \in Devices : ResumeTransmission(d)
    \/ \E d \in Devices : ResumeEnable(d)
    \/ \E d \in Devices : StopTransmission(d)
    \/ \E d \in Devices : StopDisable(d)
    \/ \E d \in Devices, c \in Conns, op \in BulkOperations : BulkOperation(d, c, op)
    \/ \E d \in Devices, c \in Conns : FireBegin(d, c)
    \/ \E d \in Devices, c \in Conns, o \in SendOutcomes : FireEnd(d, c, o)

SpecBulk == InitBulk /\ [][NextBulk]_vars

\* ------------------------------------------------------------ state reads
\* get_device_state, lines 162-169: look for a job of the device on an
\* active connection; without one return the stored state (line 177)
GetDeviceStateReadJob(d) ==
    /\ boot = Up
    /\ gpc = NoRead
    /\ IF \E c \in ActiveConnections : JobExists(d, c)
       THEN /\ gpc' = [pc |-> "job", dev |-> d]
            /\ ret' = NoRet
       ELSE /\ ret' = Ret("state", d, TRUE, "none", StoredState(d), 0)
            /\ UNCHANGED gpc
    /\ UNCHANGED <<devConfig, boot, enabled, cursor, last, connExists, connActive,
                   connType, job, device_states, manualVars, fireVars, req, log>>

\* lines 171-175: load the device and return ACTIVE or PAUSED by its
\* transmission_enabled flag
GetDeviceStateReadEnabled ==
    /\ gpc.pc = "job"
    /\ gpc' = NoRead
    /\ ret' = Ret("state", gpc.dev, TRUE, "none",
                  IF devExists[gpc.dev] /\ enabled[gpc.dev]
                  THEN STATES.ACTIVE ELSE STATES.PAUSED, 0)
    /\ UNCHANGED <<devConfig, boot, enabled, cursor, last, connExists, connActive,
                   connType, job, device_states, manualVars, fireVars, req, log>>

\* state reads among start, pause, resume and stop requests
NextState ==
    \/ \E d \in Devices : GetDeviceStateReadJob(d)
    \/ GetDeviceStateReadEnabled
    \/ \E d \in Devices, c \in Conns : StartAutomaticTransmission(d, c)
    \/ \E d \in Devices : StartEnable(d)
    \/ \E d \in Devices : PauseTransmission(d)
    \/ \E d \in Devices : PauseDisable(d)
    \/ \E d \in Devices : ResumeTransmission(d)
    \/ \E d \in Devices : ResumeEnable(d)
    \/ \E d \in Devices : StopTransmission(d)
    \/ \E d \in Devices : StopDisable(d)

SpecState == InitStart /\ [][NextState]_vars

\* ---------------------------------------------------------------- start-up
\* scheduler.get_jobs(), filtered by the 'transmission_' prefix
TransmissionJobs(j) == {k \in DOMAIN j : j[k].exists}

\* variant that does not look at whether the device record exists
ValidJobDeviceUnchecked(k) ==
    /\ enabled[k[1]]
    /\ connExists[k[2]]
    /\ connActive[k[2]]

\* _cleanup_orphaned_jobs, lines 314-315: the job is kept
ValidJob(k) ==
    /\ devExists[k[1]]
    /\ enabled[k[1]]
    /\ connExists[k[2]]
    /\ connActive[k[2]]

\* the rows of the query of _load_existing_schedules: every enabled device
\* joined with every active connection
LoadRows ==
    {k \in DOMAIN job : /\ devExists[k[1]] /\ enabled[k[1]]
                        /\ connExists[k[2]] /\ connActive[k[2]]}

\* variant that schedules every row of the query
NeedsScheduleAlways(j, k) == TRUE

\* _load_existing_schedules, lines 279-286: only keys without a job
NeedsSchedule(j, k) == ~j[k].exists

\* the jobs schedule_transmission is called for and creates
LoadCreated(j) ==
    {k \in LoadRows : NeedsSchedule(j, k) /\ freq[k[1]] > 0}

LoadJobs(j) ==
    [k \in DOMAIN j |->
        IF k \in LoadCreated(j)
        THEN ScheduleJob(j, k[1], k[2], freq[k[1]])[k]
        ELSE j[k]]

PassSteps == {"restart", "cleanup"}

Phase(todo, runs) ==
    IF todo = {} THEN [phase |-> "load", todo |-> {}, runs |-> runs]
    ELSE [phase |-> "cleanup", todo |-> todo, runs |-> runs]

\* job_defaults coalesce and the misfire_grace_time given to add_job
COALESCE == FALSE
MISFIRE_GRACE_TIME == 30

\* the most run times of a job with interval i that are not older than the
\* grace time when the job is run
RunTimesInGrace(i) == (MISFIRE_GRACE_TIME + i - 1) \div i

\* the executions the scheduler submits for a job of which due run times
\* have passed: all of them, the callback being called once for each one
\* that is within the grace time, or only the last with coalesce
SubmittedRunTimes(due, i) ==
    LET n == IF due < RunTimesInGrace(i) THEN due ELSE RunTimesInGrace(i) IN
    IF COALESCE /\ n > 1 THEN 1 ELSE n

\* the process ends and is started again: what lives in memory is gone
\* (device_states, running requests and job instances), the database and
\* the job store are kept; while the process was down, due run times of
\* each job have passed.  create_app starts the scheduler, which submits
\* the jobs that are due, and start() enters _cleanup_orphaned_jobs, which
\* lists the jobs
Restart ==
    /\ boot = Up
    /\ \E due \in [TransmissionJobs(job) -> 0..MaxDue] :
          boot' = Phase(TransmissionJobs(job),
                        [k \in TransmissionJobs(job) |->
                            IF job[k].paused THEN 0
                            ELSE SubmittedRunTimes(due[k], job[k].interval)])
    /\ device_states' = [d \in DOMAIN device_states |-> "none"]
    /\ mpc' = [t \in MThreads |-> "idle"]
    /\ mdev' = [t \in MThreads |-> 1]
    /\ morig' = [t \in MThreads |-> "none"]
    /\ msnap' = [t \in MThreads |-> 0]
    /\ fpc' = [k \in DOMAIN fpc |-> "idle"]
    /\ fsnap' = [k \in DOMAIN fsnap |-> 0]
    /\ gpc' = NoRead
    /\ req' = [d \in DOMAIN req |-> "idle"]
    /\ ret' = Ret("restart", 0, TRUE, "none",
                  IF ret.op = "load" /\ ret.ok THEN "again" ELSE "first", 0)
    /\ UNCHANGED <<devConfig, enabled, cursor, last, connExists, connActive, connType,
                   job, log>>

\* _cleanup_orphaned_jobs, one turn of the loop for a listed job.  For a
\* job that is to be removed and is no longer in the store, remove_job
\* raises JobLookupError, which only the outer handler catches: the loop
\* ends there.
CleanupJob(k) ==
    LET pass == ret.op \in PassSteps
        gone == ~ValidJob(k) /\ ~job[k].exists
        removed == IF ~ValidJob(k) /\ job[k].exists THEN 1 ELSE 0 IN
    /\ boot.phase = "cleanup"
    /\ k \in boot.todo
    /\ job' = IF removed = 1 THEN [job EXCEPT ![k] = NoJob] ELSE job
    /\ boot' = IF gone THEN Phase({}, boot.runs)
                ELSE Phase(boot.todo \ {k}, boot.runs)
    /\ ret' = Ret("cleanup", 0, pass /\ ret.ok,
                  IF gone THEN "aborted" ELSE "none",
                  IF pass THEN ret.state ELSE "first",
                  (IF pass THEN ret.n ELSE 0) + removed)
    /\ UNCHANGED <<gpc, devConfig, enabled, cursor, last, connExists, connActive, connType,
                   device_states, manualVars, fireVars, req, log>>

\* _load_existing_schedules after the clean-up; start() returns and
\* create_app goes on to serve requests
LoadExistingSchedules ==
    LET pass == ret.op \in PassSteps IN
    /\ boot.phase = "load"
    /\ job' = LoadJobs(job)
    /\ boot' = Up
    /\ ret' = Ret("load", 0, pass /\ ret.ok, "none",
                  IF pass THEN ret.state ELSE "first",
                  (IF pass THEN ret.n ELSE 0) + Cardinality(LoadCreated(job)))
    /\ UNCHANGED <<gpc, devConfig, enabled, cursor, last, connExists, connActive, connType,
                   device_states, manualVars, fireVars, req, log>>

\* devices that have no dataset yet: a fire has nothing to send
InitRestart ==
    /\ Init
    /\ \A d \in Devices : ~hasCsv[d]

\* configuration changes, start and stop requests, the timer and restarts
NextRestart ==
    \/ \E d \in Devices, c \in Conns : StartAutomaticTransmission(d, c)
    \/ \E d \in Devices : StartEnable(d)
    \/ \E d \in Devices : StopTransmission(d)
    \/ \E d \in Devices : StopDisable(d)
    \/ \E d \in Devices, f \in ConfigFreqValues \cup {Nil}, e \in {0, 1, Nil} :
          UpdateTransmissionConfig(d, f, e)
    \/ \E c \in Conns, a \in BOOLEAN : UpdateConnection(c, a)
    \/ \E d \in Devices, c \in Conns : FireBegin(d, c)
    \/ Restart
    \/ \E k \in Keys : CleanupJob(k)
    \/ LoadExistingSchedules

SpecRestart == InitRestart /\ [][NextRestart]_vars

TypeOK ==
    /\ enabled \in [Devices -> BOOLEAN]
    /\ cursor \in [Devices -> 0..(MaxRows + 1)]
    /\ device_states \in [Devices -> {"none", "inactive", "active", "paused", "manual"}]
    /\ Len(log) <= MaxLog

\* ----------------------------------------------------------- properties
ManualInFlight(d) ==
    {t \in MThreads : mpc[t] \in {"manual", "sending"} /\ mdev[t] = d}

JobsOf(d) == {c \in Conns : job[<<d, c>>].exists}

\* C1: a call of execute_manual_transmission(d, c) made while
\* get_device_state(d) is ACTIVE returns a state-conflict failure carrying
\* the current state, starts no send, writes no log entry and leaves the
\* cursor and the last-transmission time of the device unchanged.
C1_ManualRejectedWhileActive ==
    [][\A t \in MThreads, d \in Devices :
          (GetDeviceState(d) = STATES.ACTIVE /\ ExecuteManualCheck(t, d))
          => /\ ret' = Ret("manual", d, FALSE, "conflict", STATES.ACTIVE, 0)
             /\ mpc'[t] = "idle"
             /\ UNCHANGED <<log, cursor, last, device_states>>]_vars

C1_Witness ==
    /\ ret.op = "manual"
    /\ ret.error = "conflict"
    /\ ret.state = STATES.ACTIVE

\* C2: for one device at most one manual call is ever between storing
\* MANUAL and restoring the state.
C2_AtMostOneManualInFlight ==
    \A d \in Devices : Cardinality(ManualInFlight(d)) <= 1

\* C3: a manual send and the send of a fired job of the same device are
\* never both in flight.
C3_ManualExcludesAutomatic ==
    \A d \in Devices :
        ~ /\ \E t \in MThreads : mpc[t] = "sending" /\ mdev[t] = d
          /\ \E c \in Conns : fpc[<<d, c>>] = "sending"

\* C4: whenever no manual call is in progress for a device, its state is
\* not MANUAL.
C4_NoManualLeftBehind ==
    \A d \in Devices :
        (\A t \in MThreads : mpc[t] = "idle" \/ mdev[t] # d)
        => GetDeviceState(d) # STATES.MANUAL

\* C5: right after start_automatic_transmission(d, c) returned success,
\* get_device_state(d) is ACTIVE.
C5_ActiveAfterStart ==
    (ret.op = "start" /\ ret.ok) => GetDeviceState(ret.dev) = STATES.ACTIVE

\* C6: stop_transmission(d) reports success every time it is called, also
\* the second time in a row, and get_device_state(d) is INACTIVE right
\* after each call.
C6_StopIdempotent ==
    ret.op = "stop" => ret.ok /\ GetDeviceState(ret.dev) = STATES.INACTIVE

C6_Witness ==
    /\ ret.op = "stop"
    /\ ret.n = 2
    /\ GetDeviceState(ret.dev) = STATES.INACTIVE

\* C7: get_available_actions never enables start and pause together.
C7_StartPauseExclusive ==
    \A d \in Devices :
        ~(GetAvailableActions(d).start /\ GetAvailableActions(d).pause)

C7_Witness ==
    \E d \in Devices :
        /\ GetAvailableActions(d).pause
        /\ ~GetAvailableActions(d).start
        /\ JobsOf(d) # {}

\* C8: get_device_state(d) is MANUAL exactly while a manual send is in
\* flight, otherwise ACTIVE when a job of d exists and d is enabled, PAUSED
\* when a job exists and d is not enabled, INACTIVE when no job exists.
C8_StateDerivedFromJobs ==
    \A d \in Devices :
        GetDeviceState(d) =
            IF ManualInFlight(d) # {} THEN STATES.MANUAL
            ELSE IF JobsOf(d) = {} THEN STATES.INACTIVE
            ELSE IF enabled[d] THEN STATES.ACTIVE
            ELSE STATES.PAUSED

\* C9: a successful execute on a Sensor whose cursor is the dataset length
\* minus 1 ends with the device disabled, the cursor at 0 and no job left
\* for the device.
C9_CompletionAutoPause ==
    [][\A d \in Devices :
          (/\ devType[d] = "Sensor"
           /\ cursor[d] = rows[d] - 1
           /\ \/ \E c \in Conns : FireEnd(d, c, "ok")
              \/ \E t \in MThreads : mdev[t] = d /\ ExecuteManualEnd(t, "ok"))
          => /\ ~enabled'[d]
             /\ cursor'[d] = 0
             /\ \A c \in Conns : ~job'[<<d, c>>].exists]_vars

\* C10: a fire that finds an enabled Sensor with a non-empty dataset whose
\* cursor is at or past the dataset length auto-pauses the device
\* (disabled, cursor 0, no job left) and sends no row.
C10_FireAutoPausesExhaustedSensor ==
    [][\A d \in Devices, c \in Conns :
          (/\ devType[d] = "Sensor"
           /\ hasCsv[d]
           /\ rows[d] > 0
           /\ enabled[d]
           /\ cursor[d] >= rows[d]
           /\ FireBegin(d, c))
          => /\ ~enabled'[d]
             /\ cursor'[d] = 0
             /\ \A c2 \in Conns : ~job'[<<d, c2>>].exists
             /\ fpc'[<<d, c>>] # "sending"]_vars

\* devices that get_device_state reports ACTIVE
ActiveDevices == {d \in DOMAIN enabled : GetDeviceState(d) = STATES.ACTIVE}

\* C11: with the global cap set to GlobalCap, at most GlobalCap devices are
\* ACTIVE in every reachable state: a start for a further device is
\* rejected while GlobalCap devices are ACTIVE.
C11_GlobalCapRespected ==
    Cardinality(ActiveDevices) <= GlobalCap

\* C12: start_automatic_transmission(d, c) called while a job for (d, c)
\* exists and d is ACTIVE reports failure and leaves the job store as it was.
C12_StartOfActivePairRejected ==
    [][\A d \in Devices, c \in Conns :
          (/\ JobExists(d, c)
           /\ GetDeviceState(d) = STATES.ACTIVE
           /\ StartAutomaticTransmission(d, c))
          => /\ ~ret'.ok
             /\ job' = job]_vars

\* C13: every device has at most one automatic transmission job, counted
\* across all connections, in every reachable state.
C13_OneJobPerDevice ==
    \A d \in Devices : Cardinality(JobsOf(d)) <= 1

\* C14: a start for a Sensor whose frequency is 0, or for a WebApp whose
\* frequency is 30, is rejected and leaves the job store as it was.
C14_FrequencyBoundsRejected ==
    [][\A d \in Devices, c \in Conns :
          (/\ \/ devType[d] = "Sensor" /\ freq[d] = 0
              \/ devType[d] = "WebApp" /\ freq[d] = 30
           /\ StartAutomaticTransmission(d, c))
          => /\ ~ret'.ok
             /\ job' = job]_vars

\* C15: the job store holds one job per (device, connection) key.  A
\* successful start on a key replaces whatever job the key had by one job
\* that carries the device's current frequency and leaves the other keys
\* alone; the startup load leaves every existing job as it is and creates
\* jobs only for keys that had none.
C15_OneJobPerKey ==
    [][/\ \A d \in Devices, c \in Conns :
            (StartAutomaticTransmission(d, c) /\ ret'.ok)
            => /\ job'[<<d, c>>] =
                      [exists |-> TRUE, interval |-> freq[d], paused |-> FALSE]
               /\ \A k \in Keys \ {<<d, c>>} : job'[k] = job[k]
       /\ LoadExistingSchedules
            => \A k \in Keys :
                  /\ job[k].exists => job'[k] = job[k]
                  /\ (~job[k].exists /\ job'[k].exists)
                     => job'[k].interval = freq[k[1]]]_vars

\* a start has replaced a job whose interval was not the current frequency
C15_Witness ==
    /\ ret.op = "start"
    /\ ret.ok
    /\ ret.n = 1
    /\ \E c \in Conns : /\ job[<<ret.dev, c>>].interval = 30
                        /\ \E c2 \in Conns : job[<<ret.dev, c2>>].interval = 60

C17_CleanupLeavesOnlyValidJobs ==
    boot.phase = "load" => \A k \in Keys : job[k].exists => ValidJob(k)

\* C18: a start-up pass (clean-up, then load) that runs right after a
\* complete pass, with no other step taken since the first pass began,
\* removes no job and creates no job.
C18_ReconciliationIdempotent ==
    (ret.op = "load" /\ ret.ok /\ ret.state = "again") => ret.n = 0

C18_Witness ==
    /\ ret.op = "load"
    /\ ret.ok
    /\ ret.state = "again"
    /\ \E k \in Keys : job[k].exists
    /\ \E k \in Keys : ~job[k].exists

\* C19: a job of an enabled device on an active connection goes through a
\* restart unchanged (one job for the key, same interval), and the
\* scheduler started from the job store does not run it more than once for
\* the time the process was down.
C19_RestartDurability ==
    [][\A k \in Keys :
          (job[k].exists /\ ValidJob(k))
          => /\ (Restart \/ LoadExistingSchedules \/ \E k2 \in Keys : CleanupJob(k2))
                => job'[k] = job[k]
             /\ Restart => boot'.runs[k] <= 1]_vars

\* C20: a fire of job (d, c) that finds device d not enabled sends nothing,
\* writes no log entry and removes job (d, c), and no other job.
C20_SelfHealing ==
    [][\A d \in Devices, c \in Conns :
          (/\ devExists[d]
           /\ connExists[c]
           /\ ~enabled[d]
           /\ FireBegin(d, c))
          => /\ job'[<<d, c>>] = NoJob
             /\ \A k \in Keys \ {<<d, c>>} : job'[k] = job[k]
             /\ fpc'[<<d, c>>] = "idle"
             /\ UNCHANGED <<log, cursor, last, enabled>>]_vars

\* the job a start request created is gone before the request has enabled
\* the device: only the job's own fire can have removed it
C20_Witness ==
    \E d \in Devices :
        /\ req[d] = "start"
        /\ ~enabled[d]
        /\ JobsOf(d) = {}
        /\ log = <<>>

\* C21: when the send of a scheduled fire returns not-ok or raises, the
\* callback returns after writing one FAILED log entry, and the job store is
\* left as it was: the job and every other job keep their key and interval,
\* and no instance of the job is left running, so it is run again when due.
C21_FireFailureContained ==
    [][\A d \in Devices, c \in Conns, o \in {"notok", "raise"} :
          (fpc[<<d, c>>] = "sending" /\ FireEnd(d, c, o)) =>
              /\ log' = Append(log, LogEntry(d, "FAILED"))
              /\ job' = job
              /\ ~MaxInstancesReached(<<d, c>>)']_vars

\* a fire has failed and its job is still scheduled and ready to run
C21_Witness ==
    \E d \in Devices, c \in Conns :
        /\ job[<<d, c>>].exists /\ ~job[<<d, c>>].paused
        /\ job[<<d, c>>].interval = freq[d]
        /\ fpc[<<d, c>>] = "idle"
        /\ enabled[d] /\ device_states[d] = STATES.ACTIVE
        /\ CreateClient(c) = "client"
        /\ GetTransmissionData(d, cursor[d]) # Nil
        /\ last[d] = 0
        /\ log = <<LogEntry(d, "FAILED")>>
        /\ \A t \in MThreads : mpc[t] = "idle"

\* transmit_now route, lines 112-126: the status code of the answer for the
\* result of execute_manual_transmission; 500 when the call raised
TransmitNowStatus(r) ==
    IF r.error = "raised" THEN 500 ELSE IF r.ok THEN 200 ELSE 400

\* C22: an execution for a device whose payload is nil (no dataset, empty
\* dataset, or a Sensor whose cursor is at or past the dataset length)
\* appends exactly one FAILED log entry, hands nothing to a client, leaves
\* the cursor unchanged and returns failure; the transmit-now request that
\* made it is answered with status 400.
C22_NoDataFails ==
    [][/\ \A t \in MThreads, c \in Conns :
            (/\ mpc[t] = "manual"
             /\ devExists[mdev[t]] /\ connExists[c]
             /\ GetTransmissionData(mdev[t], cursor[mdev[t]]) = Nil
             /\ ExecuteManualBegin(t, c)) =>
                /\ log' = Append(log, LogEntry(mdev[t], "FAILED"))
                /\ cursor' = cursor
                /\ mpc'[t] = "idle"
                /\ ret'.op = "manual" /\ ~ret'.ok
                /\ TransmitNowStatus(ret') = 400
       /\ \A d \in Devices, c \in Conns :
            (/\ devExists[d] /\ connExists[c] /\ enabled[d]
             /\ ~(devType[d] = "Sensor" /\ ~hasCsv[d])
             /\ GetTransmissionData(d, IF cursor[d] >= rows[d] THEN 0 ELSE cursor[d]) = Nil
             /\ FireBegin(d, c)) =>
                /\ log' = Append(log, LogEntry(d, "FAILED"))
                /\ cursor' = cursor
                /\ fpc'[<<d, c>>] = "idle"]_vars

\* a transmit-now request for a device without data has just been answered
C22_Witness ==
    \E d \in Devices :
        /\ GetTransmissionData(d, cursor[d]) = Nil
        /\ ret = Ret("manual", d, FALSE, "none", "none", 0)
        /\ log # <<>> /\ log[Len(log)] = LogEntry(d, "FAILED")
        /\ \A t \in MThreads : mpc[t] = "idle"

\* C23: an execution over a connection whose type has no client (KAFKA)
\* appends exactly one FAILED log entry and returns failure to its caller
\* without raising.
C23_UnsupportedProtocolLogged ==
    [][\A t \in MThreads, c \in Conns :
          (/\ mpc[t] = "manual"
           /\ devExists[mdev[t]] /\ connExists[c]
           /\ GetTransmissionData(mdev[t], cursor[mdev[t]]) # Nil
           /\ connType[c] = "KAFKA"
           /\ ExecuteManualBegin(t, c)) =>
              /\ log' = Append(log, LogEntry(mdev[t], "FAILED"))
              /\ ~ret'.ok
              /\ ret'.error # "exception"]_vars

\* C24: every execution that ends updates the device's last-transmission
\* time, whatever its outcome: send succeeded, send returned not-ok, send
\* raised, nothing to send, or no client for the connection's type.
C24_LastSentAlwaysUpdated ==
    [][\A t \in MThreads :
          (\/ /\ mpc[t] = "sending"
              /\ \E o \in SendOutcomes : ExecuteManualEnd(t, o)
           \/ /\ mpc[t] = "manual"
              /\ devExists[mdev[t]]
              /\ \E c \in Conns : connExists[c] /\ ExecuteManualBegin(t, c)
              /\ mpc'[t] = "idle") =>
              last'[mdev[t]] = last[mdev[t]] + 1]_vars

\* C25: with a fixed dataset, in every reachable state the cursor of a
\* device is at least 0 and at most the number of rows of its dataset,
\* whatever manual and scheduled executions, stops and resets have run; and
\* when the cursor equals the number of rows the payload builder returns
\* nil.
C25_CursorWithinDataset ==
    \A d \in Devices :
        /\ 0 <= cursor[d]
        /\ cursor[d] <= rows[d]
        /\ cursor[d] = rows[d] => GetTransmissionData(d, cursor[d]) = Nil

\* a Sensor has sent every row of its dataset
C25_Witness ==
    \E d \in Devices :
        /\ devType[d] = "Sensor"
        /\ rows[d] = MaxRows
        /\ cursor[d] = rows[d]
        /\ Len(log) >= MaxRows
        /\ \A i \in 1..MaxRows : log[i] = LogEntry(d, "SUCCESS")

\* C26: a start request that fails (unknown device, frequency missing or
\* not positive, unknown or inactive connection, scheduler unavailable, or
\* the schedule call failing) reports failure, creates or replaces no job,
\* and leaves the stored transmission state and the device record as they
\* were.
C26_FailedStartChangesNothing ==
    [][\A d \in Devices, c \in ConnIds, fault \in SchedulerFaults :
          (/\ boot = Up /\ req[d] = "idle"
           /\ \/ ~devExists[d]
              \/ freq[d] <= 0
              \/ c \notin Conns
              \/ ~connExists[c]
              \/ ~connActive[c]
              \/ fault \in {"unavailable", "fails"}
           /\ StartAutomatic(d, c, fault)) =>
              /\ ret'.op = "start" /\ ~ret'.ok
              /\ job' = job
              /\ device_states' = device_states
              /\ UNCHANGED <<devConfig, enabled, cursor, last, req>>]_vars

\* a start on an inactive connection of an active device has just failed
C26_Witness ==
    \E d \in Devices, c \in Conns :
        /\ ret = Ret("start", d, FALSE, "failed", "none", 0)
        /\ devExists[d] /\ freq[d] > 0
        /\ ~connActive[c]
        /\ job[<<d, c>>].exists
        /\ device_states[d] = STATES.ACTIVE

\* C27: get_device_state reads the job and the enabled flag as one
\* snapshot: when the job of the device is removed between the two reads,
\* the call returns INACTIVE, never ACTIVE or PAUSED for a device that has
\* no job left.
C27_StateSnapshotConsistent ==
    [][(/\ gpc.pc = "job"
        /\ JobsOf(gpc.dev) = {}
        /\ GetDeviceStateReadEnabled) =>
            ret'.state = STATES.INACTIVE]_vars

\* C28: after a successful stop of a device that was ACTIVE or PAUSED the
\* device is INACTIVE, the cursor of a Sensor is 0 and the cursor of a
\* WebApp is unchanged, for the device-level stop as well as for the
\* project's bulk STOP applied to the device.
C28_StopResetsDevice ==
    [][\A d \in Devices :
          /\ (req[d] = "stop" /\ devExists[d] /\ StopDisable(d)) =>
                /\ GetDeviceState(d)' = STATES.INACTIVE
                /\ cursor'[d] = IF devType[d] = "Sensor" THEN 0 ELSE cursor[d]
          /\ \A c \in Conns :
                (/\ GetDeviceState(d) \in {STATES.ACTIVE, STATES.PAUSED}
                 /\ JobExists(d, c)
                 /\ BulkOperation(d, c, "STOP")) =>
                    /\ GetDeviceState(d)' = STATES.INACTIVE
                    /\ cursor'[d] = IF devType[d] = "Sensor" THEN 0 ELSE cursor[d]]_vars

C30_FrequencyBoundsByType ==
    [][\A d \in Devices :
          ValidateFrequency(d) =>
              /\ ret'.ok <=> \/ devType[d] = "WebApp" /\ freq[d] >= 60 /\ freq[d] <= 86400
                             \/ devType[d] = "Sensor" /\ freq[d] >= 1 /\ freq[d] <= 3600
              /\ ~ret'.ok => ret'.error = "validation"
              /\ freq' = freq]_vars

\* a WebApp frequency on the floor has been accepted
C30_Witness ==
    \E d \in Devices :
        /\ devType[d] = "WebApp"
        /\ freq[d] = 60
        /\ ret = Ret("validate", d, TRUE, "none", "none", 0)

InitOverlap ==
    /\ Init
    /\ \A d \in Devices : hasCsv[d]

NextOverlap ==
    \/ \E d \in Devices : ExecuteManualCheck("m1", d)
    \/ ExecuteManualEnter("m1")
    \/ \E c \in Conns : ExecuteManualBegin("m1", c)
    \/ \E o \in SendOutcomes : ExecuteManualEnd("m1", o)
    \/ \E d \in Devices, c \in Conns : FireBegin(d, c)
    \/ \E d \in Devices, c \in Conns, o \in SendOutcomes : FireEnd(d, c, o)
    \/ \E d \in Devices, c \in Conns : StartAutomaticTransmission(d, c)
    \/ \E d \in Devices : StartEnable(d)

SpecOverlap == InitOverlap /\ [][NextOverlap]_vars

\* the SUCCESS entries of a device in the transmission log
SuccessCount(d) ==
    Cardinality({i \in 1..Len(log) : log[i] = LogEntry(d, "SUCCESS")})

\* C32: every successful send of a Sensor advances the cursor by exactly
\* one row even when executions of the device overlap: after n SUCCESS
\* entries since the cursor was last 0, with n at most the number of rows,
\* the cursor equals n.
C32_OverlapAdvancesOncePerSuccess ==
    \A d \in Devices :
        (/\ devType[d] = "Sensor"
         /\ cursor[d] # 0
         /\ SuccessCount(d) <= rows[d]) => cursor[d] = SuccessCount(d)

\* C33: get_available_actions agrees with what the state machine accepts:
\* when it reports pause enabled for a device, pause_transmission called
\* at once succeeds and stores PAUSED, and when it reports resume enabled,
\* resume_transmission called at once succeeds and stores ACTIVE.
C33_AvailableActionsAccepted ==
    [][\A d \in Devices :
          /\ (GetAvailableActions(d).pause /\ PauseTransmission(d))
                 => (ret'.ok /\ device_states'[d] = STATES.PAUSED)
          /\ (GetAvailableActions(d).resume /\ ResumeTransmission(d))
                 => (ret'.ok /\ device_states'[d] = STATES.ACTIVE)]_vars

\* C34: after stop_transmission of the state machine has returned success
\* for a device, the scheduler holds no job of the device on any
\* connection, connections deactivated after the job was scheduled
\* included.
C34_StopLeavesNoJob ==
    [][\A d \in Devices :
          (boot = Up /\ StopTransmission(d) /\ ret'.ok)
              => \A c \in Conns : ~job'[<<d, c>>].exists]_vars

\* ------------------------------------------- requests against timer fires
\* start, pause and resume requests of a device and the fires of its jobs;
\* the only step here that removes a job is the callback stopping its own
\* job
NextSelfHeal ==
    \/ \E d \in Devices, c \in Conns : StartAutomaticTransmission(d, c)
    \/ \E d \in Devices : StartEnable(d)
    \/ \E d \in Devices : PauseTransmission(d)
    \/ \E d \in Devices : PauseDisable(d)
    \/ \E d \in Devices : ResumeTransmission(d)
    \/ \E d \in Devices : ResumeEnable(d)
    \/ \E d \in Devices, c \in Conns : FireBegin(d, c)
    \/ \E d \in Devices, c \in Conns, o \in SendOutcomes : FireEnd(d, c, o)

SpecSelfHeal == InitBulk /\ [][NextSelfHeal]_vars

\* C35: when a start-transmission or resume-transmission request of a
\* device completes successfully, the device is enabled and a live job of
\* it exists, however the request's two steps (schedule or resume the job,
\* then set the enabled flag) interleave with a fire of that job.
C35_StartResumeLeaveLiveJob ==
    [][\A d \in Devices :
          (\/ req[d] = "start" /\ StartEnable(d)
           \/ req[d] = "resume" /\ ResumeEnable(d))
              => /\ enabled'[d]
                 /\ \E c \in Conns : /\ job'[<<d, c>>].exists
                                     /\ ~job'[<<d, c>>].paused]_vars

\* C36: a restart (clean-up, then load) during which no device or
\* connection record changes and no other step is taken leaves the job
\* keys of enabled devices on active connections exactly as they were
\* before the restart: none of them is dropped and none is added.
C36_RestartKeepsJobKeys ==
    [][(/\ boot.phase = "load"
        /\ ret.op \in PassSteps
        /\ ret.ok
        /\ LoadExistingSchedules)
           => \A k \in Keys :
                 ValidJob(k) => (job'[k].exists <=> k \in DOMAIN boot.runs)]_vars

\* ------------------------------------------------ pause across a restart
\* start and pause requests of a device without a dataset, the timer and
\* restarts
NextPauseRestart ==
    \/ \E d \in Devices, c \in Conns : StartAutomaticTransmission(d, c)
    \/ \E d \in Devices : StartEnable(d)
    \/ \E d \in Devices : PauseTransmission(d)
    \/ \E d \in Devices : PauseDisable(d)
    \/ \E d \in Devices, c \in Conns : FireBegin(d, c)
    \/ Restart
    \/ \E k \in Keys : CleanupJob(k)
    \/ LoadExistingSchedules

SpecPauseRestart == InitRestart /\ [][NextPauseRestart]_vars

\* C37: a paused job survives a restart: through the restart, the clean-up
\* and the load, the job of a device that was paused by the pause
\* operation stays in the store and stays paused, and when start-up is
\* over get_device_state of the device is PAUSED.
C37_PausedJobSurvivesRestart ==
    [][\A k \in Keys :
          (/\ job[k].exists
           /\ job[k].paused
           /\ ~enabled[k[1]]
           /\ connActive[k[2]]
           /\ (Restart \/ LoadExistingSchedules \/ \E k2 \in Keys : CleanupJob(k2)))
              => /\ job'[k] = job[k]
                 /\ boot' = Up => GetDeviceState(k[1])' = STATES.PAUSED]_vars

\* ------------------------------------------------------ deleted records
\* delete_device route and Device.delete: 404 for an unknown id; otherwise
\* the project links and the device row are deleted.  Stopping the
\* device's transmissions is left as a TODO: the job store is not touched.
DeleteDevice(d) ==
    /\ boot = Up
    /\ IF devExists[d]
       THEN /\ devExists' = [devExists EXCEPT ![d] = FALSE]
            /\ ret' = Ret("delete", d, TRUE, "none", "none", 0)
       ELSE /\ ret' = Ret("delete", d, FALSE, "notfound", "none", 0)
            /\ UNCHANGED devExists
    /\ UNCHANGED <<gpc, devType, freq, hasCsv, rows, boot, enabled, cursor, last,
                   connExists, connActive, connType, job, device_states,
                   manualVars, fireVars, req, log>>

\* delete_connection route and Connection.delete
DeleteConnection(c) ==
    /\ boot = Up
    /\ IF connExists[c]
       THEN /\ connExists' = [connExists EXCEPT ![c] = FALSE]
            /\ ret' = Ret("delete", 0, TRUE, "none", "none", 0)
       ELSE /\ ret' = Ret("delete", 0, FALSE, "notfound", "none", 0)
            /\ UNCHANGED connExists
    /\ UNCHANGED <<gpc, devConfig, boot, enabled, cursor, last, connActive,
                   connType, job, device_states, manualVars, fireVars, req, log>>

\* start and stop requests, deletions of records, the timer and restarts
NextDelete ==
    \/ \E d \in Devices, c \in Conns : StartAutomaticTransmission(d, c)
    \/ \E d \in Devices : StartEnable(d)
    \/ \E d \in Devices : StopTransmission(d)
    \/ \E d \in Devices : StopDisable(d)
    \/ \E d \in Devices : DeleteDevice(d)
    \/ \E c \in Conns : DeleteConnection(c)
    \/ \E d \in Devices, c \in Conns : FireBegin(d, c)
    \/ \E d \in Devices, c \in Conns, o \in SendOutcomes : FireEnd(d, c, o)
    \/ Restart
    \/ \E k \in Keys : CleanupJob(k)
    \/ LoadExistingSchedules

SpecDelete == Init /\ [][NextDelete]_vars

ScheduleIntervals == {-1, 0, 30, 60}

\* variant without the test of the interval
ScheduleTransmissionUnchecked(j, d, c, f) ==
    [ok |-> TRUE, jobs |-> ScheduleJob(j, d, c, f)]

\* schedule_transmission, lines 170-191: None for an interval <= 0,
\* otherwise add_job with replace_existing and the job id
ScheduleTransmission(j, d, c, f) ==
    IF f <= 0 THEN [ok |-> FALSE, jobs |-> j]
    ELSE [ok |-> TRUE, jobs |-> ScheduleJob(j, d, c, f)]

\* the frame of a scheduler method: only the job store and the returned
\* value change; for these calls n is the connection of the key
SchedulerFrame ==
    UNCHANGED <<gpc, devConfig, boot, enabled, cursor, last, connExists, connActive,
                connType, device_states, manualVars, fireVars, req, log>>

SchedulerScheduleTransmission(d, c, f) ==
    LET r == ScheduleTransmission(job, d, c, f) IN
    /\ boot = Up
    /\ job' = r.jobs
    /\ ret' = Ret("schedule", d, r.ok, IF r.ok THEN "none" ELSE "interval", "none", c)
    /\ SchedulerFrame

\* pause_transmission: pause_job raises JobLookupError for a key without a
\* job, and the bare except returns False
SchedulerPauseTransmission(d, c) ==
    /\ boot = Up
    /\ job' = IF JobExists(d, c) THEN SetPaused(job, d, {c}, TRUE) ELSE job
    /\ ret' = Ret("sched_pause", d, JobExists(d, c),
                  IF JobExists(d, c) THEN "none" ELSE "nojob", "none", c)
    /\ SchedulerFrame

\* resume_transmission: the same with resume_job
SchedulerResumeTransmission(d, c) ==
    /\ boot = Up
    /\ job' = IF JobExists(d, c) THEN SetPaused(job, d, {c}, FALSE) ELSE job
    /\ ret' = Ret("sched_resume", d, JobExists(d, c),
                  IF JobExists(d, c) THEN "none" ELSE "nojob", "none", c)
    /\ SchedulerFrame

\* stop_transmission: the same with remove_job
SchedulerStopTransmission(d, c) ==
    /\ boot = Up
    /\ job' = IF JobExists(d, c) THEN RemoveJobs(job, d, {c}) ELSE job
    /\ ret' = Ret("sched_stop", d, JobExists(d, c),
                  IF JobExists(d, c) THEN "none" ELSE "nojob", "none", c)
    /\ SchedulerFrame

NextScheduler ==
    \/ \E d \in Devices, c \in Conns, f \in ScheduleIntervals :
          SchedulerScheduleTransmission(d, c, f)
    \/ \E d \in Devices, c \in Conns : SchedulerPauseTransmission(d, c)
    \/ \E d \in Devices, c \in Conns : SchedulerResumeTransmission(d, c)
    \/ \E d \in Devices, c \in Conns : SchedulerStopTransmission(d, c)

SpecScheduler == Init /\ [][NextScheduler]_vars

\* C39: a scheduler operation that fails leaves the job store as it was
\* and reports the failure in its return value: schedule_transmission with
\* an interval <= 0 returns no job id and neither creates a job nor alters
\* the job the key has, and pause_transmission, resume_transmission and
\* stop_transmission on a key without a job each return false.
C39_FailedSchedulerOpsChangeNothing ==
    [][\A d \in Devices, c \in Conns :
          /\ \A f \in ScheduleIntervals :
                (f <= 0 /\ SchedulerScheduleTransmission(d, c, f))
                    => (~ret'.ok /\ job' = job)
          /\ (~JobExists(d, c) /\ SchedulerPauseTransmission(d, c))
                => (~ret'.ok /\ job' = job)
          /\ (~JobExists(d, c) /\ SchedulerResumeTransmission(d, c))
                => (~ret'.ok /\ job' = job)
          /\ (~JobExists(d, c) /\ SchedulerStopTransmission(d, c))
                => (~ret'.ok /\ job' = job)]_vars

\* schedule_transmission has refused an interval <= 0 for a key that has
\* a paused job with a 30-second interval, while the other key has no job
C39_Witness ==
    /\ ret.op = "schedule"
    /\ ~ret.ok
    /\ ret.error = "interval"
    /\ job[<<ret.dev, ret.n>>] = [exists |-> TRUE, interval |-> 30, paused |-> TRUE]
    /\ \E c \in Conns : ~job[<<ret.dev, c>>].exists

====
